---- MODULE Spec2Model ----
(***************************************************************************)
(* Real-time core of the chat server: the Socket.IO wiring of the server   *)
(* entry point (connection registry, presence broadcast, room membership,  *)
(* typing relay) and the HTTP controller that relays persisted messages.   *)
(*                                                                         *)
(* Every handler runs to completion on the Node event loop, so each        *)
(* handler is one atomic action.  sendMessage awaits Message.create, so it *)
(* is two actions: the request up to the await, and the continuation.      *)
(*                                                                         *)
(* The error-handling utilities (CircuitBreaker, Throttler, the rate limit *)
(* of the middleware, withRetry, withTimeout) are modelled after the chat  *)
(* core, each with a specification of its own over a common clock.         *)
(***************************************************************************)
EXTENDS Integers, Sequences, FiniteSets, TLC

\* ------------------------------------------------------------------ bounds
\* number of socket ids ever handed out
MaxConns == 2
\* number of sendMessage requests plus typing events handled
MaxEvents == 2
\* the clock (Date.now()) runs from 0 to MaxTime
MaxTime == 5
\* number of execute calls made on the circuit breaker
MaxCalls == 5
\* CircuitBreaker(threshold, timeout): the constructor arguments
threshold == 2
timeout == 2
\* checkRateLimit: maxRequests (100 in the source) and windowMs (60000 ms
\* in the source), scaled down
maxRequests == 2
windowMs == 2
\* Throttler: limit (default CONFIG.THROTTLE_LIMIT, 100 in the source) and
\* window (60000 ms in the source), scaled down
THROTTLE_LIMIT == 2
window == 2
\* withRetry: maxRetries (default 3 in the source)
maxRetries == 2
\* withTimeout: CONFIG.TIMEOUT_DURATION (10000 ms in the source), scaled down
TIMEOUT_DURATION == 2
\* RETRY_CONFIG.retries of the client's axios instance
retries == 3
\* number of times the user selects another room
MaxSwitches == 2

\* ------------------------------------------------------------- value sets
\* socket ids are opaque unique strings, one per transport connection
ConnIds == {ToString(i) : i \in 1..MaxConns}

\* room ids are arbitrary client-chosen strings; each socket id also names
\* the private room of that socket
NamedRooms == {"general", "random"}
RoomIds == NamedRooms \cup ConnIds
JoinTargets == NamedRooms

\* handshake.auth.name and the x-user-name header ("" stands for absent)
AuthNames == {"", "Alice"}
HeaderNames == {"", "Alice"}

\* request bodies: text and number of attachments (absent and empty alike 0)
Bodies == {[text |-> "", attachments |-> 0],
           [text |-> "hi", attachments |-> 0],
           [text |-> "", attachments |-> 1]}

\* socket ids are fresh: the ids are handed out in one fixed order
Older(d, c) == \E i, j \in 1..MaxConns : i < j /\ d = ToString(i) /\ c = ToString(j)

NoUser == [id |-> "", name |-> ""]

VARIABLES
    conn,         \* per socket: "idle" | "open" | "stale" | "closed"
    user,         \* socket.user, set by authSocketMiddleware
    onlineUsers,  \* Map socketId -> {id, name}
    rooms,        \* socket.rooms: the rooms each socket has joined
    presence,     \* per socket: the presence:list events emitted to it, in order
    inbox,        \* per socket: the message:new events emitted to it, in order
    typing,       \* per socket: the typing events emitted to it, in order
    lost,         \* per socket: number of events written to its dead transport
    nreq,         \* number of sendMessage requests received so far
    pending,      \* messages whose Message.create has not settled yet
    res,          \* status sent for each sendMessage request (0: none sent)
    relayed,      \* message ids in the order io.to(roomId).emit ran
    ntyping,      \* number of typing events handled so far
    joined,       \* per socket: rooms of its joinRoom events, none since a disconnect
    ignored       \* sockets with a packet ignored after their disconnection

chatVars == <<conn, user, onlineUsers, rooms, presence, inbox, typing, lost, nreq, pending, res, relayed, ntyping, joined, ignored>>

VARIABLES
    now,          \* Date.now()
    cb,           \* the CircuitBreaker: state, failureCount, lastFailureTime
    running,      \* execute calls that are awaiting fn()
    fnCalls,      \* number of times execute has invoked fn
    rejected      \* number of execute calls that threw 'Circuit breaker is OPEN'

breakerVars == <<cb, running, fnCalls, rejected>>

VARIABLES
    rateLimitStore,  \* ip -> { count, resetTime }, NoEntry when the ip has no entry
    admitted,        \* per ip, the times of the requests checkRateLimit let pass
    throttled        \* per ip, the number of requests rejected with FUNCTION_THROTTLED

rateVars == <<rateLimitStore, admitted, throttled>>

VARIABLES
    requests,     \* Throttler.requests: identifier -> times of the recorded calls
    allowedAt,    \* per identifier, the times of the isAllowed calls that returned true
    deniedCalls   \* per identifier, the number of isAllowed calls that returned false

throttlerVars == <<requests, allowedAt, deniedCalls>>

VARIABLES
    rt            \* one call of a withRetry wrapper: which withRetry, position,
                  \* loop counter, the outcomes of the invocations of fn so far,
                  \* and how the call ended

retryVars == <<rt>>

VARIABLES
    tw            \* one call of withErrorHandling(fn): position, the timer of
                  \* withTimeout, the time it was set, the response the caller
                  \* got, and whether the timer callback's exception ended the
                  \* process

timeoutVars == <<tw>>

VARIABLES
    mcb,          \* middlewareCircuitBreaker: state, failureCount, lastFailureTime
    mwOpenedAt,   \* the time at which middlewareCircuitBreaker last became OPEN
    mwPassed,     \* number of requests that passed checkCircuitBreaker
    mwRejected    \* number of requests checkCircuitBreaker rejected

middlewareVars == <<mcb, mwOpenedAt, mwPassed, mwRejected>>

VARIABLES
    send          \* one send action of the client: position, room, __retryCount
                  \* of the request config, the request that is awaited, and
                  \* the sendMessage requests the server got for it

VARIABLES
    ui            \* the Chat component: mounted or not, its socket, whether the
                  \* socket is active (disconnect() not called), the selected
                  \* room, the packets sent but not yet handled by the server,
                  \* the packets buffered on the inactive socket, and the
                  \* number of room switches

clientVars == <<send, ui>>

\* the state of the parts that follow the utilities of part_000
moreVars == <<middlewareVars, clientVars>>

utilVars == <<now, breakerVars, rateVars, throttlerVars, retryVars, timeoutVars, moreVars>>

\* what the steps of one utility leave alone
exceptNow == <<chatVars, moreVars, breakerVars, rateVars, throttlerVars, retryVars, timeoutVars>>
exceptBreaker == <<chatVars, moreVars, rateVars, throttlerVars, retryVars, timeoutVars>>
exceptRate == <<chatVars, moreVars, breakerVars, throttlerVars, retryVars, timeoutVars>>
exceptThrottler == <<chatVars, moreVars, breakerVars, rateVars, retryVars, timeoutVars>>
exceptRetry == <<chatVars, moreVars, now, breakerVars, rateVars, throttlerVars, timeoutVars>>
exceptTimeout == <<chatVars, moreVars, breakerVars, rateVars, throttlerVars, retryVars>>
exceptMiddleware == <<chatVars, clientVars, breakerVars, throttlerVars, retryVars, timeoutVars>>
exceptClient == <<now, breakerVars, rateVars, throttlerVars, retryVars, timeoutVars, middlewareVars, ui>>
exceptUi == <<now, breakerVars, rateVars, throttlerVars, retryVars, timeoutVars, middlewareVars, send>>

vars == <<chatVars, utilVars>>

\* ---------------------------------------------------------------- helpers

\* sockets currently in the namespace (connected, disconnect not yet handled)
Sockets(cn) == {c \in ConnIds : cn[c] \in {"open", "stale"}}

\* (variant) the room argument is ignored: every socket of the namespace
InRoomAll(rm, roomId) == {c \in ConnIds : rm[c] # {}}

\* io.to(roomId): the sockets that are in the room
InRoom(rm, roomId) == {c \in ConnIds : roomId \in rm[c]}

\* (variant) io.to(roomId) in place of socket.to(roomId): the sender is kept
InRoomIncludingSelf(rm, roomId, self) == InRoom(rm, roomId)

\* socket.to(roomId): the sockets in the room except the emitting socket
InRoomExcept(rm, roomId, self) == InRoom(rm, roomId) \ {self}

\* (variant) the name of handshake.auth is not read
HandshakeNameHeaderOnly(authName, headerName) ==
    IF headerName # "" THEN headerName ELSE "Guest"

\* authSocketMiddleware: name = auth.name || header || 'Guest'
HandshakeName(authName, headerName) ==
    IF authName # "" THEN authName
    ELSE IF headerName # "" THEN headerName
    ELSE "Guest"

\* (variant) the entry carries the display name in its id field
RegistryEntryIdFromName(c, u) ==
    [id |-> IF u.name # "" THEN u.name ELSE "Guest",
     name |-> IF u.name # "" THEN u.name ELSE "Guest"]

\* the entry stored by the connection handler: socket.user?.name || 'Guest'
RegistryEntry(c, u) ==
    [id |-> c, name |-> IF u.name # "" THEN u.name ELSE "Guest"]

\* (variant) the payload leaves out the users without a name of their own
PresencePayloadNamedOnly(ou) ==
    [type |-> "presence:list",
     users |-> {ou[k] : k \in {x \in DOMAIN ou : ou[x].name # "Guest"}}]

\* Array.from(onlineUsers.values()): the values without their keys
PresencePayload(ou) ==
    [type |-> "presence:list", users |-> {ou[k] : k \in DOMAIN ou}]

MessageEvent(m) == [type |-> "message:new", message |-> m]

TypingEvent(c, isTyping) ==
    [type |-> "typing", userId |-> user[c].id, isTyping |-> isTyping]

\* (variant) a write to a dead transport throws and aborts the whole emit
EmitAbortsOnStale(log, cn, recipients, ev) ==
    IF \E s \in recipients : cn[s] = "stale"
    THEN log
    ELSE [c \in ConnIds |-> IF c \in recipients THEN Append(log[c], ev) ELSE log[c]]

\* (variant) the packet is put at the head of the recipient's queue
EmitPrepend(log, cn, recipients, ev) ==
    [c \in ConnIds |->
        IF c \in recipients /\ cn[c] = "open" THEN <<ev>> \o log[c] ELSE log[c]]

\* (variant) the write to each recipient is repeated once
EmitTwice(log, cn, recipients, ev) ==
    [c \in ConnIds |->
        IF c \in recipients /\ cn[c] = "open" THEN log[c] \o <<ev, ev>> ELSE log[c]]

\* one emit: the packet is written once to every recipient socket; a write
\* to a socket whose transport is dead is dropped without an error
Emit(log, cn, recipients, ev) ==
    [c \in ConnIds |->
        IF c \in recipients /\ cn[c] = "open" THEN Append(log[c], ev) ELSE log[c]]

EmitLost(cn, recipients) ==
    [c \in ConnIds |->
        IF c \in recipients /\ cn[c] = "stale" THEN lost[c] + 1 ELSE lost[c]]

\* (variant) io.to('general').emit in place of io.emit
broadcastPresenceToRoom(cn, ou) ==
    /\ presence' = Emit(presence, cn, InRoom(rooms, "general"), PresencePayload(ou))
    /\ lost' = EmitLost(cn, InRoom(rooms, "general"))

\* broadcastPresence(): io.emit to every socket of the namespace
broadcastPresence(cn, ou) ==
    /\ presence' = Emit(presence, cn, Sockets(cn), PresencePayload(ou))
    /\ lost' = EmitLost(cn, Sockets(cn))

\* Map.set / Map.delete
MapSet(ou, k, v) == [x \in DOMAIN ou \cup {k} |-> IF x = k THEN v ELSE ou[x]]

\* (variant) delete is called with a key that set never used: no entry goes
MapDeleteMissesKey(ou, k) == ou

MapDelete(ou, k) == [x \in DOMAIN ou \ {k} |-> ou[x]]

\* (variant) one room per socket: a join replaces the room joined before
SocketJoinSingleRoom(rm, c, roomId) == [rm EXCEPT ![c] = (@ \cap {c}) \cup {roomId}]

\* (variant) a join of a room the socket is in already takes it out again
SocketJoinToggles(rm, c, roomId) ==
    [rm EXCEPT ![c] = IF roomId \in @ THEN @ \ {roomId} ELSE @ \cup {roomId}]

\* socket.join(roomId): the adapter keeps the rooms of a socket as a Set
SocketJoin(rm, c, roomId) == [rm EXCEPT ![c] = @ \cup {roomId}]

\* (variant) only the rooms joined by joinRoom are left, the own room stays
LeaveAllNamedOnly(rm, c) == [rm EXCEPT ![c] = @ \cap {c}]

\* the socket leaves all its rooms when it closes, before 'disconnect' fires
LeaveAll(rm, c) == [rm EXCEPT ![c] = {}]

\* ------------------------------------------------------------------- Init
ChatInit ==
    /\ conn = [c \in ConnIds |-> "idle"]
    /\ user = [c \in ConnIds |-> NoUser]
    /\ onlineUsers = <<>>
    /\ rooms = [c \in ConnIds |-> {}]
    /\ presence = [c \in ConnIds |-> <<>>]
    /\ inbox = [c \in ConnIds |-> <<>>]
    /\ typing = [c \in ConnIds |-> <<>>]
    /\ lost = [c \in ConnIds |-> 0]
    /\ nreq = 0
    /\ pending = {}
    /\ res = <<>>
    /\ relayed = <<>>
    /\ ntyping = 0
    /\ joined = [c \in ConnIds |-> {}]
    /\ ignored = {}

\* new CircuitBreaker(): CLOSED, no failure recorded (lastFailureTime null,
\* which Date.now() - lastFailureTime reads as 0)
NewCircuitBreaker == [state |-> "CLOSED", failureCount |-> 0, lastFailureTime |-> 0]

\* the keys of rateLimitStore: a forwarded address, a remote address and
\* the fallback 'unknown'
IPs == {"10.0.0.1", "10.0.0.2", "unknown"}

\* rateLimitStore.has(ip) is false
NoEntry == [count |-> 0, resetTime |-> 0]

\* what one invocation of fn can end with: a result, or an error with the
\* fields isNonRetryableError looks at
FnResults == {[ok |-> TRUE, status |-> 200, code |-> ""],
              [ok |-> TRUE, status |-> 201, code |-> ""]}
FnErrors ==
    {[ok |-> FALSE, status |-> st, code |-> ""] :
        st \in {500, 503, 400, 401, 403, 404, 422}}
    \cup {[ok |-> FALSE, status |-> 0, code |-> c] :
        c \in {"ENOTFOUND", "ECONNREFUSED", "ETIMEDOUT"}}

\* nothing returned or thrown yet
NoValue == [ok |-> FALSE, status |-> 0, code |-> ""]

\* no withRetry call made yet
RetryIdle == [pc |-> "idle", version |-> "none", attempt |-> 0, results |-> <<>>,
              outcome |-> "none", value |-> NoValue]

\* no wrapped handler called yet
TimeoutIdle == [pc |-> "idle", timer |-> "none", setAt |-> 0, response |-> "none",
                crashed |-> FALSE]

\* the user has not sent anything yet
SendIdle == [pc |-> "idle", roomId |-> "", retryCount |-> 0, awaited |-> 0, requests |-> {}]

\* the Chat component is not rendered yet
Unmounted == [pc |-> "unmounted", sock |-> "", active |-> FALSE, roomId |-> "",
              outbox |-> <<>>, sendBuffer |-> <<>>, switches |-> 0]

UtilInit ==
    /\ now = 0
    /\ cb = NewCircuitBreaker
    /\ running = 0
    /\ fnCalls = 0
    /\ rejected = 0
    /\ rateLimitStore = [ip \in IPs |-> NoEntry]
    /\ admitted = [ip \in IPs |-> <<>>]
    /\ throttled = [ip \in IPs |-> 0]
    /\ requests = [id \in IPs |-> <<>>]
    /\ allowedAt = [id \in IPs |-> <<>>]
    /\ deniedCalls = [id \in IPs |-> 0]
    /\ rt = RetryIdle
    /\ tw = TimeoutIdle
    /\ mcb = NewCircuitBreaker
    /\ mwOpenedAt = 0
    /\ mwPassed = 0
    /\ mwRejected = 0
    /\ send = SendIdle
    /\ ui = Unmounted

Init == ChatInit /\ UtilInit

\* ---------------------------------------------------------------- actions

\* (variant) broadcastPresence() runs before onlineUsers.set
ConnectBroadcastsFirst(c, authName, headerName) ==
    /\ conn[c] = "idle"
    /\ \A d \in ConnIds : Older(d, c) => conn[d] # "idle"
    /\ LET u == [id |-> c, name |-> HandshakeName(authName, headerName)]
           cn == [conn EXCEPT ![c] = "open"]
       IN /\ user' = [user EXCEPT ![c] = u]
          /\ conn' = cn
          /\ broadcastPresence(cn, onlineUsers)
          /\ onlineUsers' = MapSet(onlineUsers, c, RegistryEntry(c, u))
          /\ rooms' = SocketJoin(SocketJoin(rooms, c, c), c, u.id)
    /\ UNCHANGED <<inbox, typing, nreq, pending, res, relayed, ntyping, joined, ignored>>
    /\ UNCHANGED utilVars

\* (variant) the middleware takes the display name as the user id
ConnectIdFromName(c, authName, headerName) ==
    /\ conn[c] = "idle"
    /\ \A d \in ConnIds : Older(d, c) => conn[d] # "idle"
    /\ LET u == [id |-> HandshakeName(authName, headerName),
                 name |-> HandshakeName(authName, headerName)]
           cn == [conn EXCEPT ![c] = "open"]
           ou == MapSet(onlineUsers, c, RegistryEntry(c, u))
       IN /\ user' = [user EXCEPT ![c] = u]
          /\ conn' = cn
          /\ onlineUsers' = ou
          /\ broadcastPresence(cn, ou)
          /\ rooms' = SocketJoin(SocketJoin(rooms, c, c), c, u.id)
    /\ UNCHANGED <<inbox, typing, nreq, pending, res, relayed, ntyping, joined, ignored>>
    /\ UNCHANGED utilVars

\* (variant) socket.broadcast.emit: the new socket itself gets no list
ConnectBroadcastToOthers(c, authName, headerName) ==
    /\ conn[c] = "idle"
    /\ \A d \in ConnIds : Older(d, c) => conn[d] # "idle"
    /\ LET u == [id |-> c, name |-> HandshakeName(authName, headerName)]
           cn == [conn EXCEPT ![c] = "open"]
           ou == MapSet(onlineUsers, c, RegistryEntry(c, u))
       IN /\ user' = [user EXCEPT ![c] = u]
          /\ conn' = cn
          /\ onlineUsers' = ou
          /\ presence' = Emit(presence, cn, Sockets(cn) \ {c}, PresencePayload(ou))
          /\ lost' = EmitLost(cn, Sockets(cn) \ {c})
          /\ rooms' = SocketJoin(SocketJoin(rooms, c, c), c, u.id)
    /\ UNCHANGED <<inbox, typing, nreq, pending, res, relayed, ntyping, joined, ignored>>
    /\ UNCHANGED utilVars

\* io.use(authSocketMiddleware) then io.on('connection'): the socket enters
\* the namespace in its own room, is registered, presence is broadcast, and
\* it joins the room named socket.user.id
ConnectStep(c, authName, headerName) ==
    /\ conn[c] = "idle"
    /\ \A d \in ConnIds : Older(d, c) => conn[d] # "idle"
    /\ LET u == [id |-> c, name |-> HandshakeName(authName, headerName)]
           cn == [conn EXCEPT ![c] = "open"]
           ou == MapSet(onlineUsers, c, RegistryEntry(c, u))
       IN /\ user' = [user EXCEPT ![c] = u]
          /\ conn' = cn
          /\ onlineUsers' = ou
          /\ broadcastPresence(cn, ou)
          /\ rooms' = SocketJoin(SocketJoin(rooms, c, c), c, u.id)
    /\ UNCHANGED <<inbox, typing, nreq, pending, res, relayed, ntyping, joined, ignored>>

\* a client connects
Connect(c, authName, headerName) ==
    /\ ConnectStep(c, authName, headerName)
    /\ UNCHANGED utilVars

\* (variant) the handler calls broadcastPresence() after socket.join
JoinRoomRebroadcasts(c, roomId) ==
    /\ conn[c] \in {"open", "closed"}
    /\ IF conn[c] = "open"
       THEN /\ rooms' = SocketJoin(rooms, c, roomId)
            /\ joined' = [joined EXCEPT ![c] = @ \cup {roomId}]
            /\ broadcastPresence(conn, onlineUsers)
            /\ UNCHANGED ignored
       ELSE /\ ignored' = ignored \cup {c}
            /\ UNCHANGED <<rooms, joined, presence, lost>>
    /\ UNCHANGED <<conn, user, onlineUsers, inbox, typing, nreq, pending, res, relayed, ntyping>>
    /\ UNCHANGED utilVars

\* (variant) the handler is registered but never calls socket.join
JoinRoomNoJoin(c, roomId) ==
    /\ conn[c] \in {"open", "closed"}
    /\ IF conn[c] = "open"
       THEN /\ joined' = [joined EXCEPT ![c] = @ \cup {roomId}]
            /\ UNCHANGED <<rooms, ignored>>
       ELSE /\ ignored' = ignored \cup {c}
            /\ UNCHANGED <<rooms, joined>>
    /\ UNCHANGED <<conn, user, onlineUsers, presence, inbox, typing, lost, nreq, pending, res, relayed, ntyping>>
    /\ UNCHANGED utilVars

\* socket.on('joinRoom'): socket.join(roomId).  The event of a socket that
\* has disconnected in the meantime is not dispatched to the handler: the
\* packet is ignored
JoinRoomStep(c, roomId) ==
    /\ conn[c] \in {"open", "closed"}
    /\ IF conn[c] = "open"
       THEN /\ rooms' = SocketJoin(rooms, c, roomId)
            /\ joined' = [joined EXCEPT ![c] = @ \cup {roomId}]
            /\ UNCHANGED ignored
       ELSE /\ ignored' = ignored \cup {c}
            /\ UNCHANGED <<rooms, joined>>
    /\ UNCHANGED <<conn, user, onlineUsers, presence, inbox, typing, lost, nreq, pending, res, relayed, ntyping>>

\* a joinRoom event of any client
JoinRoom(c, roomId) ==
    /\ JoinRoomStep(c, roomId)
    /\ UNCHANGED utilVars

\* (variant) the handler puts the typing socket in the room before it emits
TypingJoinsRoom(c, roomId, isTyping) ==
    /\ conn[c] \in {"open", "closed"}
    /\ IF conn[c] = "open"
       THEN /\ nreq + ntyping < MaxEvents
            /\ ntyping' = ntyping + 1
            /\ rooms' = SocketJoin(rooms, c, roomId)
            /\ typing' = Emit(typing, conn, InRoomExcept(rooms, roomId, c), TypingEvent(c, isTyping))
            /\ lost' = EmitLost(conn, InRoomExcept(rooms, roomId, c))
            /\ UNCHANGED ignored
       ELSE /\ ignored' = ignored \cup {c}
            /\ UNCHANGED <<ntyping, typing, lost, rooms>>
    /\ UNCHANGED <<conn, user, onlineUsers, presence, inbox, nreq, pending, res, relayed, joined>>
    /\ UNCHANGED utilVars

\* (variant) the handler also runs for a socket that has disconnected
TypingAfterDisconnect(c, roomId, isTyping) ==
    /\ conn[c] \in {"open", "closed"}
    /\ nreq + ntyping < MaxEvents
    /\ ntyping' = ntyping + 1
    /\ typing' = Emit(typing, conn, InRoomExcept(rooms, roomId, c), TypingEvent(c, isTyping))
    /\ lost' = EmitLost(conn, InRoomExcept(rooms, roomId, c))
    /\ UNCHANGED <<conn, user, onlineUsers, rooms, presence, inbox, nreq, pending, res, relayed, joined, ignored>>
    /\ UNCHANGED utilVars

\* socket.on('typing'): socket.to(roomId).emit.  The event of a socket that
\* has disconnected in the meantime is not dispatched to the handler
Typing(c, roomId, isTyping) ==
    /\ conn[c] \in {"open", "closed"}
    /\ IF conn[c] = "open"
       THEN /\ nreq + ntyping < MaxEvents
            /\ ntyping' = ntyping + 1
            /\ typing' = Emit(typing, conn, InRoomExcept(rooms, roomId, c), TypingEvent(c, isTyping))
            /\ lost' = EmitLost(conn, InRoomExcept(rooms, roomId, c))
            /\ UNCHANGED ignored
       ELSE /\ ignored' = ignored \cup {c}
            /\ UNCHANGED <<ntyping, typing, lost>>
    /\ UNCHANGED <<conn, user, onlineUsers, rooms, presence, inbox, nreq, pending, res, relayed, joined>>
    /\ UNCHANGED utilVars

\* the transport of a connected socket dies and the server has not noticed
\* yet: the socket is still registered and still in its rooms
TransportLost(c) ==
    /\ conn[c] = "open"
    /\ conn' = [conn EXCEPT ![c] = "stale"]
    /\ UNCHANGED <<user, onlineUsers, rooms, presence, inbox, typing, lost, nreq, pending, res, relayed, ntyping, joined, ignored>>
    /\ UNCHANGED utilVars

\* (variant) broadcastPresence() runs before onlineUsers.delete
DisconnectBroadcastsFirst(c) ==
    /\ conn[c] \in {"open", "stale"}
    /\ LET cn == [conn EXCEPT ![c] = "closed"]
       IN /\ conn' = cn
          /\ rooms' = LeaveAll(rooms, c)
          /\ broadcastPresence(cn, onlineUsers)
          /\ onlineUsers' = MapDelete(onlineUsers, c)
    /\ joined' = [joined EXCEPT ![c] = {}]
    /\ UNCHANGED <<user, inbox, typing, nreq, pending, res, relayed, ntyping, ignored>>
    /\ UNCHANGED utilVars

\* (variant) the socket stays in its rooms after it has disconnected
DisconnectKeepsRooms(c) ==
    /\ conn[c] \in {"open", "stale"}
    /\ LET cn == [conn EXCEPT ![c] = "closed"]
           ou == MapDelete(onlineUsers, c)
       IN /\ conn' = cn
          /\ onlineUsers' = ou
          /\ broadcastPresence(cn, ou)
    /\ joined' = [joined EXCEPT ![c] = {}]
    /\ UNCHANGED <<user, rooms, inbox, typing, nreq, pending, res, relayed, ntyping, ignored>>
    /\ UNCHANGED utilVars

\* (variant) the handler also tells everyone that the socket stopped typing
DisconnectClearsTyping(c) ==
    /\ conn[c] \in {"open", "stale"}
    /\ LET cn == [conn EXCEPT ![c] = "closed"]
           ou == MapDelete(onlineUsers, c)
       IN /\ conn' = cn
          /\ rooms' = LeaveAll(rooms, c)
          /\ onlineUsers' = ou
          /\ broadcastPresence(cn, ou)
          /\ typing' = Emit(typing, cn, Sockets(cn), TypingEvent(c, FALSE))
    /\ joined' = [joined EXCEPT ![c] = {}]
    /\ UNCHANGED <<user, inbox, nreq, pending, res, relayed, ntyping, ignored>>
    /\ UNCHANGED utilVars

\* socket.on('disconnect'): the socket has left the namespace and all its
\* rooms when the handler runs; the handler unregisters it and broadcasts
DisconnectStep(c) ==
    /\ conn[c] \in {"open", "stale"}
    /\ LET cn == [conn EXCEPT ![c] = "closed"]
           ou == MapDelete(onlineUsers, c)
       IN /\ conn' = cn
          /\ rooms' = LeaveAll(rooms, c)
          /\ onlineUsers' = ou
          /\ broadcastPresence(cn, ou)
    /\ joined' = [joined EXCEPT ![c] = {}]
    /\ UNCHANGED <<user, inbox, typing, nreq, pending, res, relayed, ntyping, ignored>>

\* the disconnect of any socket
Disconnect(c) ==
    /\ DisconnectStep(c)
    /\ UNCHANGED utilVars

\* (variant) the event is emitted before Message.create is awaited
SendMessageRelaysFirst(roomId, headerName, body) ==
    /\ nreq + ntyping < MaxEvents
    /\ nreq' = nreq + 1
    /\ LET id == nreq + 1
           senderName == IF headerName # "" THEN headerName ELSE "Guest"
           m == [id |-> id, roomId |-> roomId, senderName |-> senderName,
                 createdAt |-> now]
       IN IF body.text = "" /\ body.attachments = 0
          THEN /\ res' = Append(res, 400)
               /\ pending' = pending
               /\ UNCHANGED <<inbox, lost>>
          ELSE /\ res' = Append(res, 0)
               /\ pending' = pending \cup {m}
               /\ inbox' = Emit(inbox, conn, InRoom(rooms, roomId), MessageEvent(m))
               /\ lost' = EmitLost(conn, InRoom(rooms, roomId))
    /\ UNCHANGED <<conn, user, onlineUsers, rooms, presence, typing, relayed, ntyping, joined, ignored>>
    /\ UNCHANGED utilVars

\* sendMessage up to the await: validation, then Message.create is started
SendMessageStep(roomId, headerName, body) ==
    /\ nreq + ntyping < MaxEvents
    /\ nreq' = nreq + 1
    /\ LET id == nreq + 1
           senderName == IF headerName # "" THEN headerName ELSE "Guest"
       IN IF body.text = "" /\ body.attachments = 0
          THEN /\ res' = Append(res, 400)
               /\ pending' = pending
          ELSE /\ res' = Append(res, 0)
               /\ pending' = pending \cup
                    {[id |-> id, roomId |-> roomId, senderName |-> senderName,
                      createdAt |-> now]}
    /\ UNCHANGED <<conn, user, onlineUsers, rooms, presence, inbox, typing, lost, relayed, ntyping, joined, ignored>>

\* a sendMessage request of any client
SendMessage(roomId, headerName, body) ==
    /\ SendMessageStep(roomId, headerName, body)
    /\ UNCHANGED utilVars

\* (variant) the relay leaves out the connections of the message's sender
MessageCreatedSkipsSender(m) ==
    /\ m \in pending
    /\ pending' = pending \ {m}
    /\ LET to == {c \in InRoom(rooms, m.roomId) : user[c].name # m.senderName}
       IN /\ inbox' = Emit(inbox, conn, to, MessageEvent(m))
          /\ lost' = EmitLost(conn, to)
    /\ relayed' = Append(relayed, m.id)
    /\ res' = [res EXCEPT ![m.id] = 201]
    /\ UNCHANGED <<conn, user, onlineUsers, rooms, presence, typing, nreq, ntyping, joined, ignored>>
    /\ UNCHANGED utilVars

\* (variant) the emit to a room without members throws: no response is sent
MessageCreatedFailsOnEmptyRoom(m) ==
    /\ m \in pending
    /\ pending' = pending \ {m}
    /\ inbox' = Emit(inbox, conn, InRoom(rooms, m.roomId), MessageEvent(m))
    /\ lost' = EmitLost(conn, InRoom(rooms, m.roomId))
    /\ IF InRoom(rooms, m.roomId) = {}
       THEN UNCHANGED <<relayed, res>>
       ELSE /\ relayed' = Append(relayed, m.id)
            /\ res' = [res EXCEPT ![m.id] = 201]
    /\ UNCHANGED <<conn, user, onlineUsers, rooms, presence, typing, nreq, ntyping, joined, ignored>>
    /\ UNCHANGED utilVars

\* (variant) the relayed message stays queued and is relayed again later
MessageCreatedKeepsPending(m) ==
    /\ m \in pending
    /\ Len(relayed) < MaxEvents + 1
    /\ inbox' = Emit(inbox, conn, InRoom(rooms, m.roomId), MessageEvent(m))
    /\ lost' = EmitLost(conn, InRoom(rooms, m.roomId))
    /\ relayed' = Append(relayed, m.id)
    /\ res' = [res EXCEPT ![m.id] = 201]
    /\ UNCHANGED <<conn, user, onlineUsers, rooms, presence, typing, nreq, pending, ntyping, joined, ignored>>
    /\ UNCHANGED utilVars

\* sendMessage after the await: relay to the room, then answer 201
MessageCreated(m) ==
    /\ m \in pending
    /\ pending' = pending \ {m}
    /\ inbox' = Emit(inbox, conn, InRoom(rooms, m.roomId), MessageEvent(m))
    /\ lost' = EmitLost(conn, InRoom(rooms, m.roomId))
    /\ relayed' = Append(relayed, m.id)
    /\ res' = [res EXCEPT ![m.id] = 201]
    /\ UNCHANGED <<conn, user, onlineUsers, rooms, presence, typing, nreq, ntyping, joined, ignored>>
    /\ UNCHANGED utilVars

\* Message.create rejects: the handler's promise rejects, nothing is relayed
\* and the handler sends no response
MessageCreateFailed(m) ==
    /\ m \in pending
    /\ pending' = pending \ {m}
    /\ UNCHANGED <<conn, user, onlineUsers, rooms, presence, inbox, typing, lost, nreq, res, relayed, ntyping, joined, ignored>>
    /\ UNCHANGED utilVars

Next ==
    \/ \E c \in ConnIds, a \in AuthNames, h \in HeaderNames : Connect(c, a, h)
    \/ \E c \in ConnIds, r \in JoinTargets : JoinRoom(c, r)
    \/ \E c \in ConnIds, r \in RoomIds, b \in BOOLEAN : Typing(c, r, b)
    \/ \E c \in ConnIds : TransportLost(c)
    \/ \E c \in ConnIds : Disconnect(c)
    \/ \E r \in RoomIds, h \in HeaderNames, b \in Bodies : SendMessage(r, h, b)
    \/ \E m \in pending : MessageCreated(m)
    \/ \E m \in pending : MessageCreateFailed(m)

Spec == Init /\ [][Next]_vars

\* time passes
Tick ==
    /\ now < MaxTime
    /\ now' = now + 1
    /\ UNCHANGED exceptNow

\* sendMessage requests that overlap while time passes: Message.create
\* stamps createdAt (schema option timestamps) when it is called and
\* settles when the database has answered
NextOrdering ==
    \/ Tick
    \/ \E c \in ConnIds, a \in AuthNames, h \in HeaderNames : Connect(c, a, h)
    \/ \E c \in ConnIds, r \in JoinTargets : JoinRoom(c, r)
    \/ \E r \in NamedRooms, h \in HeaderNames, b \in Bodies : SendMessage(r, h, b)
    \/ \E m \in pending : MessageCreated(m)
    \/ \E m \in pending : MessageCreateFailed(m)

SpecOrdering == Init /\ [][NextOrdering]_vars

\* the connection lifecycle alone: the handlers that io.on('connection')
\* installs for connect, joinRoom and disconnect, and the loss of a transport
NextPresence ==
    \/ \E c \in ConnIds, a \in AuthNames, h \in HeaderNames : Connect(c, a, h)
    \/ \E c \in ConnIds, r \in JoinTargets : JoinRoom(c, r)
    \/ \E c \in ConnIds : TransportLost(c)
    \/ \E c \in ConnIds : Disconnect(c)

SpecPresence == Init /\ [][NextPresence]_vars

\* the socket handlers alone, without the HTTP controller: connect, joinRoom,
\* typing and disconnect, and the loss of a transport
NextRealtime ==
    \/ \E c \in ConnIds, a \in AuthNames, h \in HeaderNames : Connect(c, a, h)
    \/ \E c \in ConnIds, r \in JoinTargets : JoinRoom(c, r)
    \/ \E c \in ConnIds, r \in RoomIds, b \in BOOLEAN : Typing(c, r, b)
    \/ \E c \in ConnIds : TransportLost(c)
    \/ \E c \in ConnIds : Disconnect(c)

SpecRealtime == Init /\ [][NextRealtime]_vars

\* ---------------------------------------------------------- client send

\* RETRY_CONFIG.retryCondition(error): no response at all (status 0 here),
\* or a 5xx status
retryCondition(status) == status = 0 \/ status >= 500

\* (variant) the interceptor rejects without retrying
InterceptErrorNoRetry(sd, status) == [sd EXCEPT !.pc = "failed"]

\* the response interceptor's error handler: the error is passed on when
\* __retryCount has reached retries or the retry condition does not hold;
\* otherwise __retryCount is incremented and, after the delay, the same
\* request is made again with api(config)
InterceptError(sd, status) ==
    IF sd.retryCount >= retries THEN [sd EXCEPT !.pc = "failed"]
    ELSE IF retryCondition(status)
    THEN [sd EXCEPT !.retryCount = @ + 1, !.pc = "posting"]
    ELSE [sd EXCEPT !.pc = "failed"]

\* send(e) with a text: api.post of the message to the selected room
ClientSend(roomId) ==
    /\ send.pc = "idle"
    /\ send' = [send EXCEPT !.pc = "posting", !.roomId = roomId]
    /\ UNCHANGED <<chatVars, exceptClient>>

\* the POST reaches the server: sendMessage runs up to its await
PostArrives ==
    /\ send.pc = "posting"
    /\ SendMessageStep(send.roomId, "Alice", [text |-> "hi", attachments |-> 0])
    /\ send' = [send EXCEPT !.pc = "inflight", !.awaited = nreq + 1,
                            !.requests = @ \cup {nreq + 1}]
    /\ UNCHANGED exceptClient

\* the POST does not reach the server: a network error without a response
PostFails ==
    /\ send.pc = "posting"
    /\ send' = InterceptError(send, 0)
    /\ UNCHANGED <<chatVars, exceptClient>>

\* the 201 of the awaited request reaches the client: send returns
ResponseArrives ==
    /\ send.pc = "inflight"
    /\ res[send.awaited] = 201
    /\ send' = [send EXCEPT !.pc = "done"]
    /\ UNCHANGED <<chatVars, exceptClient>>

\* the awaited request ends without a response at the client: the response
\* is lost on the way, or the 30 s timeout of the axios instance passes
\* first, whatever the server has done with the request meanwhile
ResponseLost ==
    /\ send.pc = "inflight"
    /\ send' = InterceptError(send, 0)
    /\ UNCHANGED <<chatVars, exceptClient>>

NextClientSend ==
    \/ \E c \in ConnIds, a \in AuthNames, h \in HeaderNames : Connect(c, a, h)
    \/ \E c \in ConnIds, r \in JoinTargets : JoinRoom(c, r)
    \/ \E r \in NamedRooms : ClientSend(r)
    \/ PostArrives
    \/ PostFails
    \/ ResponseArrives
    \/ ResponseLost
    \/ \E m \in pending : MessageCreated(m)
    \/ \E m \in pending : MessageCreateFailed(m)

SpecClientSend == Init /\ [][NextClientSend]_vars

\* --------------------------------------------------------- client rooms

\* socket.emit on the client: a packet of an active socket goes out, a
\* packet of a socket on which disconnect() was called stays in sendBuffer,
\* as nothing calls connect() again
ClientEmit(u, packet) ==
    IF u.active THEN [u EXCEPT !.outbox = Append(@, packet)]
    ELSE [u EXCEPT !.sendBuffer = Append(@, packet)]

\* first render of Chat: useMemo creates the socket with io(url, { auth }),
\* the effect emits joinRoom for roomId 'general'; the server handles the
\* connection
ChatMount ==
    /\ ui.pc = "unmounted"
    /\ \E c \in ConnIds :
          /\ ConnectStep(c, "Alice", "")
          /\ ui' = ClientEmit([ui EXCEPT !.pc = "mounted", !.sock = c, !.active = TRUE,
                                         !.roomId = "general"], "general")
    /\ UNCHANGED exceptUi

\* the server handles the next joinRoom packet of the component's socket
ServerGetsJoinRoom ==
    /\ ui.outbox # <<>>
    /\ JoinRoomStep(ui.sock, Head(ui.outbox))
    /\ ui' = [ui EXCEPT !.outbox = Tail(@)]
    /\ UNCHANGED exceptUi

\* (variant) the effect's cleanup removes the listeners only
SwitchRoomKeepsSocket(r) ==
    /\ ui.pc = "mounted"
    /\ r # ui.roomId
    /\ ui.switches < MaxSwitches
    /\ ui' = ClientEmit([ui EXCEPT !.roomId = r, !.switches = @ + 1], r)
    /\ UNCHANGED <<chatVars, exceptUi>>

\* setRoomId(r) with the name unchanged: useMemo keeps the socket, the
\* cleanup of the effect of the previous roomId runs (socket.off ...,
\* socket.disconnect()), then the effect runs again with the same socket
\* and emits joinRoom for r
SwitchRoom(r) ==
    /\ ui.pc = "mounted"
    /\ r # ui.roomId
    /\ ui.switches < MaxSwitches
    /\ ui' = ClientEmit([ui EXCEPT !.active = FALSE, !.roomId = r, !.switches = @ + 1], r)
    /\ UNCHANGED <<chatVars, exceptUi>>

\* the server handles the disconnect of the component's socket, after the
\* packets sent before it
ServerGetsDisconnect ==
    /\ ui.pc = "mounted"
    /\ ~ui.active
    /\ ui.outbox = <<>>
    /\ DisconnectStep(ui.sock)
    /\ UNCHANGED utilVars

NextClientRooms ==
    \/ ChatMount
    \/ ServerGetsJoinRoom
    \/ \E r \in NamedRooms : SwitchRoom(r)
    \/ ServerGetsDisconnect
    \/ \E c \in ConnIds \ {ui.sock}, a \in AuthNames, h \in HeaderNames : Connect(c, a, h)
    \/ \E c \in ConnIds \ {ui.sock}, r \in JoinTargets : JoinRoom(c, r)
    \/ \E r \in NamedRooms, h \in HeaderNames, b \in Bodies : SendMessage(r, h, b)
    \/ \E m \in pending : MessageCreated(m)

SpecClientRooms == Init /\ [][NextClientRooms]_vars

\* ------------------------------------------------------- circuit breaker

\* CircuitBreaker.onSuccess()
onSuccess(b) == [b EXCEPT !.failureCount = 0, !.state = "CLOSED"]

\* (variant) the breaker opens one failure late
onFailureOpensLate(b, t) ==
    [b EXCEPT !.failureCount = @ + 1,
              !.lastFailureTime = t,
              !.state = IF b.failureCount + 1 > threshold THEN "OPEN" ELSE @]

\* CircuitBreaker.onFailure()
onFailure(b, t) ==
    [b EXCEPT !.failureCount = @ + 1,
              !.lastFailureTime = t,
              !.state = IF b.failureCount + 1 >= threshold THEN "OPEN" ELSE @]

\* (variant) the rejection is thrown inside the try block and so counted
\* as a failure of fn
ExecuteCountsRejection ==
    /\ fnCalls + rejected < MaxCalls
    /\ IF cb.state = "OPEN" /\ ~(now - cb.lastFailureTime > timeout)
       THEN /\ rejected' = rejected + 1
            /\ cb' = onFailure(cb, now)
            /\ UNCHANGED <<running, fnCalls>>
       ELSE /\ cb' = IF cb.state = "OPEN" THEN [cb EXCEPT !.state = "HALF_OPEN"] ELSE cb
            /\ running' = running + 1
            /\ fnCalls' = fnCalls + 1
            /\ UNCHANGED rejected
    /\ UNCHANGED <<exceptBreaker, now>>

\* CircuitBreaker.execute(fn) up to the await: an OPEN breaker throws unless
\* more than timeout ms have passed since the last failure, then it becomes
\* HALF_OPEN; otherwise fn is invoked
Execute ==
    /\ fnCalls + rejected < MaxCalls
    /\ IF cb.state = "OPEN" /\ ~(now - cb.lastFailureTime > timeout)
       THEN /\ rejected' = rejected + 1
            /\ UNCHANGED <<cb, running, fnCalls>>
       ELSE /\ cb' = IF cb.state = "OPEN" THEN [cb EXCEPT !.state = "HALF_OPEN"] ELSE cb
            /\ running' = running + 1
            /\ fnCalls' = fnCalls + 1
            /\ UNCHANGED rejected
    /\ UNCHANGED <<exceptBreaker, now>>

\* execute after the await, fn has returned: onSuccess(), the result is returned
FnReturns ==
    /\ running > 0
    /\ running' = running - 1
    /\ cb' = onSuccess(cb)
    /\ UNCHANGED <<exceptBreaker, now, fnCalls, rejected>>

\* execute after the await, fn has thrown: onFailure(), the error is rethrown
FnThrows ==
    /\ running > 0
    /\ running' = running - 1
    /\ cb' = onFailure(cb, now)
    /\ UNCHANGED <<exceptBreaker, now, fnCalls, rejected>>

\* ---------------------------------------------------------- rate limit

\* request.headers['x-forwarded-for'] || request.connection?.remoteAddress
\* || 'unknown'; "" is an absent value
ClientIp(forwardedFor, remoteAddress) ==
    IF forwardedFor # "" THEN forwardedFor
    ELSE IF remoteAddress # "" THEN remoteAddress
    ELSE "unknown"

\* calls of checkRateLimit so far
RateCalls ==
    LET n(ip) == Len(admitted[ip]) + throttled[ip]
    IN  n("10.0.0.1") + n("10.0.0.2") + n("unknown")

\* checkRateLimit(request): a first request of an ip, or one after resetTime,
\* opens a window with count 1; inside a window the request is counted
\* unless count has reached maxRequests, then FUNCTION_THROTTLED is thrown
RateLimitStep(forwardedFor, remoteAddress) ==
    LET ip == ClientIp(forwardedFor, remoteAddress)
        limit == rateLimitStore[ip]
        pass == admitted' = [admitted EXCEPT ![ip] = Append(@, now)]
    IN  /\ IF limit = NoEntry \/ now > limit.resetTime
           THEN /\ rateLimitStore' = [rateLimitStore EXCEPT
                                         ![ip] = [count |-> 1, resetTime |-> now + windowMs]]
                /\ pass
                /\ UNCHANGED throttled
           ELSE IF limit.count >= maxRequests
           THEN /\ throttled' = [throttled EXCEPT ![ip] = @ + 1]
                /\ UNCHANGED <<rateLimitStore, admitted>>
           ELSE /\ rateLimitStore' = [rateLimitStore EXCEPT ![ip].count = @ + 1]
                /\ pass
                /\ UNCHANGED throttled

\* checkRateLimit called on its own (it is exported by the middleware)
checkRateLimit(forwardedFor, remoteAddress) ==
    /\ RateCalls < MaxCalls
    /\ RateLimitStep(forwardedFor, remoteAddress)
    /\ UNCHANGED <<exceptRate, now>>

NextRateLimit ==
    \/ Tick
    \/ \E f \in {"", "10.0.0.1"}, a \in {"", "10.0.0.2"} : checkRateLimit(f, a)

SpecRateLimit == Init /\ [][NextRateLimit]_vars

\* ------------------------------------------------------------ throttler

\* requests.filter(time => time > windowStart)
CleanOld(q, windowStart) == SelectSeq(q, LAMBDA time : time > windowStart)

\* calls of isAllowed so far
ThrottlerCalls ==
    LET n(id) == Len(allowedAt[id]) + deniedCalls[id]
    IN  n("10.0.0.1") + n("10.0.0.2") + n("unknown")

\* (variant) the test is length > limit
isAllowedOffByOne(identifier) ==
    LET currentRequests == CleanOld(requests[identifier], now - window)
    IN  /\ ThrottlerCalls < MaxCalls
        /\ IF Len(currentRequests) > THROTTLE_LIMIT
           THEN /\ requests' = [requests EXCEPT ![identifier] = currentRequests]
                /\ deniedCalls' = [deniedCalls EXCEPT ![identifier] = @ + 1]
                /\ UNCHANGED allowedAt
           ELSE /\ requests' = [requests EXCEPT ![identifier] = Append(currentRequests, now)]
                /\ allowedAt' = [allowedAt EXCEPT ![identifier] = Append(@, now)]
                /\ UNCHANGED deniedCalls
        /\ UNCHANGED <<exceptThrottler, now>>

\* Throttler.isAllowed(identifier): the identifier's list is cleaned of the
\* times at or before now - window (a missing list is created empty, which
\* the empty sequence stands for); with limit or more entries left the call
\* returns false, otherwise now is pushed and the call returns true
isAllowed(identifier) ==
    LET currentRequests == CleanOld(requests[identifier], now - window)
    IN  /\ ThrottlerCalls < MaxCalls
        /\ IF Len(currentRequests) >= THROTTLE_LIMIT
           THEN /\ requests' = [requests EXCEPT ![identifier] = currentRequests]
                /\ deniedCalls' = [deniedCalls EXCEPT ![identifier] = @ + 1]
                /\ UNCHANGED allowedAt
           ELSE /\ requests' = [requests EXCEPT ![identifier] = Append(currentRequests, now)]
                /\ allowedAt' = [allowedAt EXCEPT ![identifier] = Append(@, now)]
                /\ UNCHANGED deniedCalls
        /\ UNCHANGED <<exceptThrottler, now>>

\* withThrottling(fn)(req, res): the identifier is taken from the request
\* and FUNCTION_THROTTLED is thrown when isAllowed returns false
withThrottling(forwardedFor, remoteAddress) ==
    isAllowed(ClientIp(forwardedFor, remoteAddress))

NextThrottler ==
    \/ Tick
    \/ \E f \in {"", "10.0.0.1"}, a \in {"", "10.0.0.2"} : withThrottling(f, a)

SpecThrottler == Init /\ [][NextThrottler]_vars

\* ---------------------------------------------------------------- retry

\* (variant) only the status is looked at
isNonRetryableErrorStatusOnly(error) ==
    error.status \in {400, 401, 403, 404, 422}

\* isNonRetryableError(error) of api/utils/errorHandler.js
isNonRetryableError(error) ==
    \/ error.status \in {400, 401, 403, 404, 422}
    \/ error.code = "ENOTFOUND"
    \/ error.code = "ECONNREFUSED"

\* the call ends by throwing error
RetryThrows(r, error) == [r EXCEPT !.pc = "done", !.outcome = "threw", !.value = error]

\* (variant) the last round is recognised one round late
CatchVercelOneMore(r, error) ==
    LET r1 == [r EXCEPT !.results = Append(@, error)]
    IN  IF r.attempt = maxRetries + 1
        THEN RetryThrows(r1, error)
        ELSE [r1 EXCEPT !.pc = "waiting"]

\* catch block of withRetry in the vercel error utilities: the error is
\* rethrown in round maxRetries, otherwise the wrapper waits
CatchVercel(r, error) ==
    LET r1 == [r EXCEPT !.results = Append(@, error)]
    IN  IF r.attempt = maxRetries
        THEN RetryThrows(r1, error)
        ELSE [r1 EXCEPT !.pc = "waiting"]

\* catch block of withRetry in api/utils/errorHandler.js: a non-retryable
\* error is rethrown at once; before round maxRetries the function waits;
\* after round maxRetries the loop ends and lastError is thrown
CatchApi(r, error) ==
    LET r1 == [r EXCEPT !.results = Append(@, error)]
    IN  IF isNonRetryableError(error)
        THEN RetryThrows(r1, error)
        ELSE IF r.attempt < maxRetries
        THEN [r1 EXCEPT !.pc = "waiting"]
        ELSE RetryThrows(r1, error)

\* withRetry is called: the loop starts with round 0 and invokes fn
withRetry(version) ==
    /\ rt.pc = "idle"
    /\ rt' = [rt EXCEPT !.pc = "calling", !.version = version]
    /\ UNCHANGED exceptRetry

\* return await fn(): fn has returned result
FnResolves(result) ==
    /\ rt.pc = "calling"
    /\ rt' = [rt EXCEPT !.pc = "done", !.results = Append(@, result),
                        !.outcome = "returned", !.value = result]
    /\ UNCHANGED exceptRetry

\* return await fn(): fn has thrown error
FnRejects(error) ==
    /\ rt.pc = "calling"
    /\ rt' = IF rt.version = "vercel" THEN CatchVercel(rt, error) ELSE CatchApi(rt, error)
    /\ UNCHANGED exceptRetry

\* the delay before the next round has passed: the next round invokes fn
RetryDelayElapsed ==
    /\ rt.pc = "waiting"
    /\ rt' = [rt EXCEPT !.pc = "calling", !.attempt = @ + 1]
    /\ UNCHANGED exceptRetry

NextRetry ==
    \/ \E version \in {"vercel", "api"} : withRetry(version)
    \/ \E result \in FnResults : FnResolves(result)
    \/ \E error \in FnErrors : FnRejects(error)
    \/ RetryDelayElapsed

SpecRetry == Init /\ [][NextRetry]_vars

\* -------------------------------------------------------------- timeout

\* the response withErrorHandling's catch block makes of an error: the
\* vercelErrorType of a Vercel error, INTERNAL_SERVER_ERROR for any other
ErrorResponse(vercelErrorType) ==
    IF vercelErrorType # "" THEN vercelErrorType ELSE "INTERNAL_SERVER_ERROR"

\* clearTimeout(timeoutId): a timer that has not fired will not fire
clearTimeout(timer) == IF timer = "set" THEN "cleared" ELSE timer

\* withErrorHandling(fn)(req, res) reaches withTimeout(fn)(req, res): the
\* timer is set and fn is awaited
withTimeout ==
    /\ tw.pc = "idle"
    /\ tw' = [tw EXCEPT !.pc = "awaiting", !.timer = "set", !.setAt = now]
    /\ UNCHANGED <<exceptTimeout, now>>

\* the timer callback runs, not before the timeout has passed: its throw is
\* an exception of the timer callback, not a rejection of the wrapper's
\* promise, so the wrapper goes on awaiting fn; no uncaughtException handler
\* is installed by the code, so the exception ends the process unless the
\* hosting runtime handles it
TimerFires ==
    /\ tw.timer = "set"
    /\ now >= tw.setAt + TIMEOUT_DURATION
    /\ \E crash \in BOOLEAN :
          tw' = [tw EXCEPT !.timer = "fired", !.crashed = crash,
                           !.pc = IF crash THEN "dead" ELSE @]
    /\ UNCHANGED <<exceptTimeout, now>>

\* fn has returned: the timer is cleared and the result is the response
HandlerResolves ==
    /\ tw.pc = "awaiting"
    /\ tw' = [tw EXCEPT !.pc = "done", !.timer = clearTimeout(@), !.response = "result"]
    /\ UNCHANGED <<exceptTimeout, now>>

\* fn has thrown: the timer is cleared, the error is rethrown and
\* withErrorHandling answers with an error response
HandlerRejects(vercelErrorType) ==
    /\ tw.pc = "awaiting"
    /\ tw' = [tw EXCEPT !.pc = "done", !.timer = clearTimeout(@),
                        !.response = ErrorResponse(vercelErrorType)]
    /\ UNCHANGED <<exceptTimeout, now>>

NextTimeout ==
    \/ Tick
    \/ withTimeout
    \/ TimerFires
    \/ HandlerResolves
    \/ \E e \in {"", "FUNCTION_THROTTLED"} : HandlerRejects(e)

SpecTimeout == Init /\ [][NextTimeout]_vars

\* ----------------------------------------------------------- middleware

\* handleMiddlewareFailure: the failure is counted and timed, the breaker
\* opens at threshold (the middleware's threshold and timeout are those of
\* CircuitBreaker, 5 and 60000 ms in the source)
handleMiddlewareFailure(b, t) ==
    [b EXCEPT !.failureCount = @ + 1,
              !.lastFailureTime = t,
              !.state = IF b.failureCount + 1 >= threshold THEN "OPEN" ELSE @]

\* (variant) the catch block answers a breaker rejection without handing it
\* to handleMiddlewareFailure
MiddlewareSparesRejection(forwardedFor, remoteAddress, originAllowed) ==
    /\ mwPassed + mwRejected < MaxCalls
    /\ IF mcb.state = "OPEN" /\ ~(now - mcb.lastFailureTime > timeout)
       THEN /\ mwRejected' = mwRejected + 1
            /\ UNCHANGED <<mcb, mwOpenedAt, mwPassed, rateVars>>
       ELSE LET b == IF mcb.state = "OPEN" THEN [mcb EXCEPT !.state = "HALF_OPEN"] ELSE mcb
            IN  /\ mwPassed' = mwPassed + 1
                /\ UNCHANGED mwRejected
                /\ IF originAllowed
                   THEN /\ mcb' = b
                        /\ UNCHANGED mwOpenedAt
                        /\ RateLimitStep(forwardedFor, remoteAddress)
                   ELSE /\ mcb' = handleMiddlewareFailure(b, now)
                        /\ mwOpenedAt' = IF mcb'.state = "OPEN" THEN now ELSE mwOpenedAt
                        /\ UNCHANGED rateVars
    /\ UNCHANGED <<exceptMiddleware, now>>

\* the middleware function for one request: checkCircuitBreaker throws
\* MIDDLEWARE_INVOCATION_FAILED while the breaker is OPEN and not more than
\* timeout ms have passed since lastFailureTime, otherwise an OPEN breaker
\* becomes HALF_OPEN; handleCORS throws MIDDLEWARE_INVOCATION_FAILED for an
\* origin that is not allowed; then checkRateLimit runs. The catch block
\* hands every MIDDLEWARE_INVOCATION_FAILED error to handleMiddlewareFailure.
\* The steps after checkRateLimit and the other error handlers write no state.
Middleware(forwardedFor, remoteAddress, originAllowed) ==
    /\ mwPassed + mwRejected < MaxCalls
    /\ IF mcb.state = "OPEN" /\ ~(now - mcb.lastFailureTime > timeout)
       THEN /\ mwRejected' = mwRejected + 1
            /\ mcb' = handleMiddlewareFailure(mcb, now)
            /\ UNCHANGED <<mwOpenedAt, mwPassed, rateVars>>
       ELSE LET b == IF mcb.state = "OPEN" THEN [mcb EXCEPT !.state = "HALF_OPEN"] ELSE mcb
            IN  /\ mwPassed' = mwPassed + 1
                /\ UNCHANGED mwRejected
                /\ IF originAllowed
                   THEN /\ mcb' = b
                        /\ UNCHANGED mwOpenedAt
                        /\ RateLimitStep(forwardedFor, remoteAddress)
                   ELSE /\ mcb' = handleMiddlewareFailure(b, now)
                        /\ mwOpenedAt' = IF mcb'.state = "OPEN" THEN now ELSE mwOpenedAt
                        /\ UNCHANGED rateVars
    /\ UNCHANGED <<exceptMiddleware, now>>

NextMiddleware ==
    \/ Tick
    \/ \E f \in {"", "10.0.0.1"}, a \in {"", "10.0.0.2"}, o \in BOOLEAN : Middleware(f, a, o)

SpecMiddleware == Init /\ [][NextMiddleware]_vars

NextBreaker ==
    \/ Tick
    \/ Execute
    \/ FnReturns
    \/ FnThrows

SpecBreaker == Init /\ [][NextBreaker]_vars

\* execute called by a caller that awaits each call before the next one
ExecuteSequential == running = 0 /\ Execute

NextBreakerSequential ==
    \/ Tick
    \/ ExecuteSequential
    \/ FnReturns
    \/ FnThrows

SpecBreakerSequential == Init /\ [][NextBreakerSequential]_vars

TypeOK ==
    /\ conn \in [ConnIds -> {"idle", "open", "stale", "closed"}]
    /\ DOMAIN onlineUsers \subseteq ConnIds
    /\ rooms \in [ConnIds -> SUBSET RoomIds]
    /\ \A c \in ConnIds : lost[c] \in Nat
    /\ nreq + ntyping \in 0..MaxEvents
    /\ Len(res) = nreq
    /\ joined \in [ConnIds -> SUBSET RoomIds]
    /\ ignored \subseteq ConnIds
\* ================================================================= claims

Last(q) == q[Len(q)]

\* the connection ids a presence:list payload carries
Ids(ev) == {u.id : u \in ev.users}

\* the sockets that got a presence:list event in this step
GotPresence == {d \in ConnIds : presence'[d] # presence[d]}

\* position of message id x in the order of relay
RelayPos(x) == CHOOSE k \in 1..Len(relayed) : relayed[k] = x

\* C1: no presence:list event emitted by the disconnect handler of c carries
\* an entry with id c, whatever the other connections have done before.
DisconnectBroadcastExcludesSelf ==
    [][\A c \in ConnIds : Disconnect(c) =>
          \A d \in GotPresence : c \notin Ids(Last(presence'[d]))]_vars

DisconnectBroadcastWitness ==
    /\ conn["1"] = "closed"
    /\ conn["2"] = "open"
    /\ Len(presence["2"]) = 2
    /\ Ids(presence["2"][1]) = {"1", "2"}
    /\ Ids(presence["2"][2]) = {"2"}

\* C2: every presence:list payload emitted carries exactly the ids that are
\* the keys of onlineUsers when broadcastPresence is called.
PresenceReflectsRegistry ==
    [][\A d \in GotPresence :
          /\ Len(presence'[d]) = Len(presence[d]) + 1
          /\ Ids(Last(presence'[d])) = DOMAIN onlineUsers']_vars

PresenceReflectsRegistryWitness ==
    /\ DOMAIN onlineUsers = {"1", "2"}
    /\ onlineUsers["1"].name = "Guest"
    /\ onlineUsers["2"].name = "Alice"
    /\ Len(presence["1"]) = 2
    /\ Ids(Last(presence["1"])) = {"1", "2"}

\* C3: a connect or a disconnect emits one presence:list event to every
\* socket of the namespace, the new one included and whatever rooms they are
\* in: each one with a live transport gets exactly one more event.
PresenceToAllOnChange ==
    [][(\/ \E c \in ConnIds : Disconnect(c)
        \/ \E c \in ConnIds, a \in AuthNames, h \in HeaderNames : Connect(c, a, h))
       => \A d \in ConnIds :
            /\ conn'[d] = "open" =>
                 presence'[d] = Append(presence[d], PresencePayload(onlineUsers'))
            /\ conn'[d] = "stale" => lost'[d] = lost[d] + 1]_vars

PresenceToAllWitness ==
    /\ conn["1"] = "open"
    /\ conn["2"] = "open"
    /\ rooms["1"] = {"1"}
    /\ "general" \in rooms["2"]
    /\ Len(presence["1"]) = 2
    /\ Len(presence["2"]) = 1

\* C4: in every state between two handlers, the last presence:list event of
\* every live connection lists exactly the connections in the registry.
FinalRegistryBroadcast ==
    \A c \in ConnIds : conn[c] = "open" =>
        /\ presence[c] # <<>>
        /\ Ids(Last(presence[c])) = DOMAIN onlineUsers

FinalRegistryWitness ==
    /\ conn["1"] = "closed"
    /\ conn["2"] = "open"
    /\ DOMAIN onlineUsers = {"2"}
    /\ Len(presence["2"]) = 2
    /\ Ids(Last(presence["2"])) = {"2"}

\* C5: the relay of sendMessage emits message:new to every socket that is in
\* the room when it runs, the sockets of the sender included: each member
\* with a live transport gets the event, each stale member one dropped write.
RelayReachesEveryMember ==
    [][\A m \in pending : MessageCreated(m) =>
          \A c \in ConnIds : m.roomId \in rooms[c] =>
              /\ conn[c] = "open" => inbox'[c] = Append(inbox[c], MessageEvent(m))
              /\ conn[c] = "stale" => lost'[c] = lost[c] + 1]_vars

RelayReachesSenderWitness ==
    \E c \in ConnIds :
        /\ conn[c] = "open"
        /\ "general" \in rooms[c]
        /\ Len(inbox[c]) = 1
        /\ inbox[c][1].message.roomId = "general"
        /\ inbox[c][1].message.senderName = user[c].name

\* C6: a message:new event reaches a socket only through a relay to a room
\* the socket is in at that moment, and never a socket that has disconnected.
RelayOnlyToMembers ==
    [][\A c \in ConnIds : inbox'[c] # inbox[c] =>
          /\ conn[c] = "open"
          /\ Len(inbox'[c]) = Len(inbox[c]) + 1
          /\ Last(inbox'[c]).message.roomId \in rooms[c]
          /\ \E m \in pending : MessageCreated(m) /\ Last(inbox'[c]).message = m]_vars

RelayOnlyToMembersWitness ==
    /\ conn["1"] = "open"
    /\ conn["2"] = "open"
    /\ "general" \in rooms["1"]
    /\ rooms["2"] = {"2"}
    /\ Len(inbox["1"]) = 1
    /\ inbox["1"][1].message.roomId = "general"
    /\ inbox["2"] = <<>>

\* C7: when a member of the room is stale, the relay still delivers to every
\* other member and the request is answered 201.
RelaySurvivesStaleMember ==
    [][\A m \in pending :
          (MessageCreated(m) /\ \E s \in ConnIds : m.roomId \in rooms[s] /\ conn[s] = "stale")
          => /\ \A c \in ConnIds : (m.roomId \in rooms[c] /\ conn[c] = "open") =>
                    inbox'[c] = Append(inbox[c], MessageEvent(m))
             /\ res'[m.id] = 201]_vars

RelaySurvivesStaleWitness ==
    /\ conn["1"] = "stale"
    /\ conn["2"] = "open"
    /\ "general" \in rooms["1"]
    /\ "general" \in rooms["2"]
    /\ inbox["1"] = <<>>
    /\ lost["1"] = 1
    /\ Len(inbox["2"]) = 1
    /\ inbox["2"][1].message.roomId = "general"
    /\ res = <<201>>

\* C8: every socket holds the message:new events of one room in the order
\* in which the relay ran for them.
PerRoomFifo ==
    \A c \in ConnIds : \A i, j \in 1..Len(inbox[c]) :
        (i < j /\ inbox[c][i].message.roomId = inbox[c][j].message.roomId)
        => RelayPos(inbox[c][i].message.id) < RelayPos(inbox[c][j].message.id)

PerRoomFifoWitness ==
    \E c \in ConnIds :
        /\ Len(inbox[c]) = 2
        /\ inbox[c][1].message.roomId = inbox[c][2].message.roomId
        /\ inbox[c][1].message.id = 2
        /\ inbox[c][2].message.id = 1
        /\ relayed = <<2, 1>>

\* C9: a typing event of a connected socket c for room r reaches every other
\* member of r as {userId: c, isTyping} and never c itself.
TypingExcludesSender ==
    [][\A c \in ConnIds, r \in RoomIds, b \in BOOLEAN :
          (conn[c] = "open" /\ Typing(c, r, b)) =>
          /\ typing'[c] = typing[c]
          /\ \A d \in ConnIds \ {c} : (r \in rooms[d] /\ conn[d] = "open") =>
                typing'[d] = Append(typing[d],
                    [type |-> "typing", userId |-> c, isTyping |-> b])]_vars

TypingExcludesSenderWitness ==
    /\ "general" \in rooms["1"]
    /\ "general" \in rooms["2"]
    /\ "1" \notin rooms["2"]
    /\ typing["1"] = <<>>
    /\ typing["2"] = <<[type |-> "typing", userId |-> "1", isTyping |-> TRUE]>>

\* C10: once socket c has disconnected it is in no room, and no message:new
\* or typing event is emitted to it any more.
DisconnectLeavesAllRooms ==
    [][\A c \in ConnIds : conn'[c] = "closed" =>
          /\ rooms'[c] = {}
          /\ conn[c] = "closed" => (inbox'[c] = inbox[c] /\ typing'[c] = typing[c])]_vars

DisconnectLeavesAllRoomsWitness ==
    /\ conn["1"] = "closed"
    /\ rooms["1"] = {}
    /\ conn["2"] = "open"
    /\ Len(inbox["1"]) = 1
    /\ inbox["1"][1].message.roomId = "general"
    /\ Len(inbox["2"]) = 2
    /\ inbox["2"][2].message.roomId = "general"

\* C11 (as stated): a membership entry (c, r) exists exactly when a joinRoom
\* event for (c, r) has been handled and c has not disconnected since.
MembershipIffJoined ==
    \A c \in ConnIds, r \in RoomIds : r \in rooms[c] <=> r \in joined[c]

\* C11 (amended): a membership entry (c, r) exists exactly when c is connected
\* and either r is c's own id, joined by the connection handler, or a
\* joinRoom event for (c, r) has been handled since c connected.
MembershipIffJoinedOrPrivate ==
    \A c \in ConnIds, r \in RoomIds :
        r \in rooms[c] <=>
            \/ r \in joined[c]
            \/ r = c /\ conn[c] \in {"open", "stale"}

MembershipIffJoinedOrPrivateWitness ==
    /\ conn["1"] = "closed"
    /\ rooms["1"] = {}
    /\ "1" \in ignored
    /\ conn["2"] = "open"
    /\ joined["2"] = {"general"}
    /\ rooms["2"] = {"2", "general"}

\* a step that is neither a lifecycle step, a typing event nor a step of
\* sendMessage (every joinRoom step is one of these)
QuietStep ==
    conn' = conn /\ nreq' = nreq /\ ntyping' = ntyping /\ pending' = pending

DisconnectedIsAbsorbing ==
    [][\A c \in ConnIds : conn[c] = "closed" =>
          /\ conn'[c] = "closed"
          /\ rooms'[c] = {}
          /\ c \notin DOMAIN onlineUsers'
          /\ \A r \in RoomIds :
                (JoinRoom(c, r) \/ \E b \in BOOLEAN : Typing(c, r, b)) =>
                    /\ c \in ignored'
                    /\ UNCHANGED <<onlineUsers, rooms, presence, inbox, typing, lost>>]_vars

DisconnectedIsAbsorbingWitness ==
    /\ conn["1"] = "closed"
    /\ "1" \in ignored
    /\ rooms["1"] = {}
    /\ conn["2"] = "open"
    /\ rooms["2"] = {"2", "general", "random"}
    /\ DOMAIN onlineUsers = {"2"}
    /\ Len(presence["2"]) = 2
    /\ typing["2"] = <<>>
    /\ lost["2"] = 0

\* C14: the connect of c registers c, emits presence:list (to c as well) and
\* leaves c in exactly one room, the private room named by its own id, which
\* is also socket.user.id; as long as c is connected it is in that room.
ConnectJoinsPrivateRoom ==
    [][\A c \in ConnIds :
          /\ (conn[c] = "idle" /\ conn'[c] = "open") =>
                /\ \E a \in AuthNames, h \in HeaderNames : Connect(c, a, h)
                /\ c \in DOMAIN onlineUsers'
                /\ presence'[c] = <<PresencePayload(onlineUsers')>>
                /\ user'[c].id = c
                /\ rooms'[c] = {c}
          /\ conn'[c] \in {"open", "stale"} => c \in rooms'[c]]_vars

ConnectJoinsPrivateRoomWitness ==
    /\ conn["1"] = "stale"
    /\ "1" \in rooms["1"]
    /\ conn["2"] = "open"
    /\ rooms["2"] = {"2", "general"}
    /\ user["2"].id = "2"
    /\ Len(presence["2"]) = 1

\* C15: a joinRoom event emits no presence:list event, to a live or to a
\* stale socket; a presence:list event is emitted only by the connect and
\* the disconnect handler.
JoinRoomEmitsNoPresence ==
    [][/\ presence' # presence =>
            \E c \in ConnIds :
                \/ /\ conn[c] = "idle"
                   /\ \E a \in AuthNames, h \in HeaderNames : Connect(c, a, h)
                \/ /\ conn'[c] = "closed"
                   /\ Disconnect(c)
       /\ \A c \in ConnIds, r \in RoomIds : (QuietStep /\ JoinRoom(c, r)) =>
            presence' = presence /\ lost' = lost]_vars

JoinRoomEmitsNoPresenceWitness ==
    /\ conn["1"] = "open"
    /\ rooms["1"] = {"1", "general", "random"}
    /\ conn["2"] = "stale"
    /\ "general" \in rooms["2"]
    /\ Len(presence["1"]) = 2
    /\ Len(presence["2"]) = 1
    /\ lost["2"] = 0
    /\ ntyping = 1

\* C16: a socket can be in several rooms at once: a joinRoom for r2 keeps
\* every room the socket is in already, and a socket that has joined both
\* named rooms gets the message:new event of a relay to either of them.
MultiRoomMembership ==
    [][\A c \in ConnIds : conn[c] = "open" =>
          /\ \A r2 \in RoomIds :
                (QuietStep /\ r2 \notin rooms[c] /\ r2 \in rooms'[c] /\ JoinRoom(c, r2))
                    => rooms'[c] = rooms[c] \cup {r2}
          /\ NamedRooms \subseteq joined[c] =>
                \A m \in pending : (m.roomId \in NamedRooms /\ MessageCreated(m))
                    => inbox'[c] = Append(inbox[c], MessageEvent(m))]_vars

MultiRoomMembershipWitness ==
    /\ conn["1"] = "open"
    /\ joined["1"] = {"general", "random"}
    /\ rooms["1"] = {"1", "general", "random"}
    /\ Len(inbox["1"]) = 2
    /\ inbox["1"][1].message.roomId = "random"
    /\ inbox["1"][2].message.roomId = "general"

\* the entries of registry ou that carry connection id c
EntriesOf(ou, c) == {k \in DOMAIN ou : ou[k].id = c}

\* C17: the registry lists at most one entry per connection id, exactly one
\* for every connected socket, and registering a connection again with the
\* name it has changes nothing: there is still exactly one entry for it.
OneEntryPerConnection ==
    /\ \A c \in ConnIds : Cardinality(EntriesOf(onlineUsers, c)) <= 1
    /\ \A c \in Sockets(conn) :
          LET twice == MapSet(onlineUsers, c, RegistryEntry(c, user[c]))
          IN /\ Cardinality(EntriesOf(onlineUsers, c)) = 1
             /\ Cardinality(EntriesOf(twice, c)) = 1
             /\ twice = onlineUsers
    /\ Cardinality(DOMAIN onlineUsers) = Cardinality({onlineUsers[k].id : k \in DOMAIN onlineUsers})

OneEntryPerConnectionWitness ==
    /\ DOMAIN onlineUsers = {"1", "2"}
    /\ onlineUsers["1"] = [id |-> "1", name |-> "Alice"]
    /\ onlineUsers["2"] = [id |-> "2", name |-> "Alice"]
    /\ conn["1"] = "stale"

\* C18: joining a room the socket is in already changes nothing: the
\* membership relation after join; join is the one after a single join, a
\* relay to the room then appends the event to the socket's inbox once, and
\* no inbox holds the same message twice.
JoinTwiceIsJoinOnce ==
    /\ \A c \in ConnIds, r \in RoomIds : conn[c] = "open" =>
          LET once == SocketJoin(rooms, c, r)
              twice == SocketJoin(once, c, r)
          IN /\ twice = once
             /\ r \in rooms[c] => once = rooms
             /\ \A m \in pending : m.roomId = r =>
                   Emit(inbox, conn, InRoom(twice, r), MessageEvent(m))[c]
                       = Append(inbox[c], MessageEvent(m))
    /\ \A c \in ConnIds : \A i, j \in 1..Len(inbox[c]) :
          i # j => inbox[c][i].message.id # inbox[c][j].message.id

JoinTwiceIsJoinOnceWitness ==
    /\ conn["1"] = "open"
    /\ joined["1"] = {"general"}
    /\ rooms["1"] = {"1", "general"}
    /\ Len(inbox["1"]) = 1
    /\ inbox["1"][1].message.roomId = "general"
    /\ \E m \in pending : m.roomId = "general"

\* C19: a relay or a typing event addressed to a room that no socket is in
\* (never joined, or left by the disconnect of all its members) emits to no
\* socket and completes: the request is answered 201, the typing handler
\* returns.
EmptyRoomDeliversNothing ==
    [][/\ \A m \in pending : (InRoom(rooms, m.roomId) = {} /\ MessageCreated(m)) =>
            /\ UNCHANGED <<presence, inbox, typing, lost>>
            /\ res'[m.id] = 201
            /\ relayed' = Append(relayed, m.id)
       /\ \A c \in ConnIds, r \in RoomIds :
            (conn[c] = "open" /\ InRoom(rooms, r) = {} /\ ntyping' = ntyping + 1
                /\ \E b \in BOOLEAN : Typing(c, r, b))
            => UNCHANGED <<presence, inbox, typing, lost>>]_vars

EmptyRoomDeliversNothingWitness ==
    /\ conn["1"] = "closed"
    /\ conn["2"] = "open"
    /\ rooms["2"] = {"2"}
    /\ Len(inbox["1"]) = 1
    /\ inbox["1"][1].message.id = 1
    /\ inbox["1"][1].message.roomId = "general"
    /\ inbox["2"] = <<>>
    /\ typing["2"] = <<>>
    /\ lost = [c \in ConnIds |-> 0]
    /\ relayed = <<1, 2>>
    /\ res = <<201, 201>>

\* C20: the disconnect of c emits presence:list and nothing else: no typing
\* and no message:new event, and one write per socket.  A typing event
\* naming c is emitted only by the typing handler of c, with the isTyping
\* value of the event, so none is ever made up on c's behalf.
NoTypingOnDisconnect ==
    [][/\ \A c \in ConnIds : (conn[c] # "closed" /\ conn'[c] = "closed" /\ Disconnect(c)) =>
            /\ typing' = typing
            /\ inbox' = inbox
            /\ \A d \in ConnIds :
                  /\ Len(presence'[d]) = Len(presence[d]) + (IF conn'[d] = "open" THEN 1 ELSE 0)
                  /\ lost'[d] = lost[d] + (IF conn'[d] = "stale" THEN 1 ELSE 0)
       /\ \A d \in ConnIds : typing'[d] # typing[d] =>
            \E c \in ConnIds \ {d}, r \in RoomIds, b \in BOOLEAN :
                /\ conn[c] = "open"
                /\ Typing(c, r, b)
                /\ typing'[d] = Append(typing[d],
                        [type |-> "typing", userId |-> c, isTyping |-> b])]_vars

NoTypingOnDisconnectWitness ==
    /\ conn["1"] = "closed"
    /\ conn["2"] = "open"
    /\ "general" \in rooms["2"]
    /\ typing["2"] = <<[type |-> "typing", userId |-> "1", isTyping |-> TRUE]>>
    /\ Len(presence["2"]) = 2
    /\ ntyping = 1

\* the message ids of the message:new events in log q
MsgIds(q) == {q[i].message.id : i \in 1..Len(q)}

\* C21: a message that has been relayed and that socket c did not get then
\* never reaches c later, whatever c does afterwards (connect, joinRoom);
\* a connect or a joinRoom step emits no message:new event at all.
NoStoreAndForward ==
    [][\A c \in ConnIds :
          /\ \A k \in 1..Len(relayed) :
                relayed[k] \notin MsgIds(inbox[c]) => relayed[k] \notin MsgIds(inbox'[c])
          /\ (conn'[c] # conn[c] \/ rooms'[c] # rooms[c]) => inbox' = inbox]_vars

NoStoreAndForwardWitness ==
    /\ conn["1"] = "open"
    /\ "general" \in rooms["1"]
    /\ Len(inbox["1"]) = 1
    /\ inbox["1"][1].message.roomId = "general"
    /\ inbox["1"][1].message.id = 1
    /\ conn["2"] = "open"
    /\ "general" \in rooms["2"]
    /\ inbox["2"] = <<>>
    /\ lost["2"] = 0
    /\ relayed = <<1>>

\* C22: an accepted request is relayed at most once and each socket holds
\* its message:new event at most once: the relay order and every inbox are
\* free of repetitions, a relayed message is not pending any more, and every
\* event in an inbox belongs to a relayed message.
RelayNeverRetries ==
    /\ \A i, j \in 1..Len(relayed) : i # j => relayed[i] # relayed[j]
    /\ \A m \in pending : m.id \notin {relayed[k] : k \in 1..Len(relayed)}
    /\ \A c \in ConnIds :
          /\ Cardinality(MsgIds(inbox[c])) = Len(inbox[c])
          /\ MsgIds(inbox[c]) \subseteq {relayed[k] : k \in 1..Len(relayed)}

RelayNeverRetriesWitness ==
    /\ conn["1"] = "open"
    /\ conn["2"] = "open"
    /\ Len(inbox["1"]) = 2
    /\ inbox["2"] = inbox["1"]
    /\ inbox["1"][1].message.roomId = "general"
    /\ inbox["1"][2].message.roomId = "general"
    /\ relayed = <<1, 2>>
    /\ res = <<201, 201>>
    /\ pending = {}

\* A has connected, then B, both are still connected with a live transport
\* and no other connection exists
OnlyAThenB ==
    /\ conn["1"] = "open"
    /\ conn["2"] = "open"
    /\ \A c \in ConnIds \ {"1", "2"} : conn[c] = "idle"

\* C23 (as stated): after A and then B have connected, each of A and B has
\* received two presence:list events, the second one listing both.
BothGetTwoPresenceLists ==
    OnlyAThenB =>
        \A c \in {"1", "2"} :
            /\ Len(presence[c]) = 2
            /\ Ids(presence[c][2]) = {"1", "2"}

\* C23 (amended): after A and then B have connected, A has received two
\* presence:list events, the first listing A alone and the second both, and
\* B has received one, the list of both.
FirstGetsTwoSecondGetsOne ==
    OnlyAThenB =>
        /\ Len(presence["1"]) = 2
        /\ Ids(presence["1"][1]) = {"1"}
        /\ Ids(presence["1"][2]) = {"1", "2"}
        /\ presence["2"] = <<presence["1"][2]>>

FirstGetsTwoSecondGetsOneWitness ==
    /\ OnlyAThenB
    /\ onlineUsers["1"].name = "Alice"
    /\ onlineUsers["2"].name = "Guest"
    /\ Len(presence["1"]) = 2
    /\ Len(presence["2"]) = 1
    /\ presence["2"][1].users = {[id |-> "1", name |-> "Alice"], [id |-> "2", name |-> "Guest"]}

\* C24: for every handshake the name stored in the registry for the new
\* socket, and shown for it in the presence:list of that connect, is the
\* non-empty name supplied (handshake.auth.name, else the x-user-name
\* header), and "Guest" when none is supplied; it is never empty.
GuestNameCoercion ==
    [][\A c \in ConnIds : (conn[c] = "idle" /\ conn'[c] = "open") =>
          \A a \in AuthNames, h \in HeaderNames : Connect(c, a, h) =>
              LET supplied == IF a # "" THEN a ELSE h
                  expected == IF supplied # "" THEN supplied ELSE "Guest"
              IN /\ onlineUsers'[c] = [id |-> c, name |-> expected]
                 /\ user'[c].name = expected
                 /\ [id |-> c, name |-> expected] \in Last(presence'[c]).users
                 /\ \A e \in Last(presence'[c]).users : e.name # ""]_vars

GuestNameCoercionWitness ==
    /\ DOMAIN onlineUsers = {"1", "2"}
    /\ onlineUsers["1"] = [id |-> "1", name |-> "Guest"]
    /\ onlineUsers["2"] = [id |-> "2", name |-> "Alice"]
    /\ conn["2"] = "open"
    /\ Last(presence["2"]).users = {onlineUsers["1"], onlineUsers["2"]}
    /\ rooms["1"] = {"1", "random"}

\* C25: the registry changes only in a connect or a disconnect step and the
\* membership relation only in a connect, a disconnect or a joinRoom step:
\* a joinRoom leaves the registry unchanged, and a typing event and every
\* step of sendMessage leave both unchanged.
OnlyLifecycleMutates ==
    [][/\ conn' = conn => onlineUsers' = onlineUsers
       /\ (conn' = conn /\ rooms' # rooms) =>
            \E c \in ConnIds, r \in RoomIds :
                conn[c] = "open" /\ r \in rooms'[c] /\ JoinRoom(c, r)
       /\ (nreq' # nreq \/ pending' # pending \/ relayed' # relayed) =>
            /\ \/ \E r \in RoomIds, h \in HeaderNames, b \in Bodies :
                      nreq' # nreq /\ SendMessage(r, h, b)
               \/ \E m \in pending : MessageCreated(m) \/ MessageCreateFailed(m)
            /\ UNCHANGED <<onlineUsers, rooms>>
       /\ (ntyping' # ntyping \/ typing' # typing) =>
            /\ \E c \in ConnIds, r \in RoomIds, b \in BOOLEAN : Typing(c, r, b)
            /\ UNCHANGED <<onlineUsers, rooms>>]_vars

OnlyLifecycleMutatesWitness ==
    /\ conn["1"] = "open"
    /\ conn["2"] = "open"
    /\ DOMAIN onlineUsers = {"1", "2"}
    /\ rooms["1"] = {"1", "general"}
    /\ rooms["2"] = {"2", "general"}
    /\ Len(typing["2"]) = 1
    /\ Len(inbox["1"]) = 1
    /\ inbox["1"][1].message.senderName = "Alice"
    /\ ntyping = 1
    /\ res = <<201>>

\* C26: while the breaker is OPEN and less than timeout ms have passed since
\* the last recorded failure, an execute call throws 'Circuit breaker is
\* OPEN': fn is not invoked and failureCount, state and lastFailureTime
\* stay as they are.
OpenBreakerRejects ==
    [][(cb.state = "OPEN" /\ now - cb.lastFailureTime < timeout /\ Execute) =>
          /\ rejected' = rejected + 1
          /\ fnCalls' = fnCalls
          /\ running' = running
          /\ cb' = cb]_vars

OpenBreakerRejectsWitness ==
    /\ cb.state = "OPEN"
    /\ cb.failureCount = threshold
    /\ now - cb.lastFailureTime < timeout
    /\ rejected = 1
    /\ fnCalls = threshold
    /\ running = 0

\* number of elements of the sequence q inside (lo, hi]
CountIn(q, lo, hi) == Cardinality({i \in DOMAIN q : lo < q[i] /\ q[i] <= hi})

\* C27: for every ip, checkRateLimit lets at most maxRequests requests pass
\* in any interval of windowMs; every further request of the interval is
\* rejected with FUNCTION_THROTTLED.
AtMostMaxRequestsPerInterval ==
    \A ip \in IPs, t \in 0..MaxTime :
        CountIn(admitted[ip], t - windowMs, t) <= maxRequests

\* inside one window of the store no more than maxRequests requests pass
AtMostMaxRequestsPerWindow ==
    \A ip \in IPs :
        rateLimitStore[ip] # NoEntry =>
            /\ rateLimitStore[ip].count <= maxRequests
            /\ CountIn(admitted[ip], rateLimitStore[ip].resetTime - windowMs - 1,
                       rateLimitStore[ip].resetTime) = rateLimitStore[ip].count

\* C28: for every identifier and every time t, at most limit isAllowed
\* calls with a time in (t - window, t] returned true; a denied call is not
\* recorded; a call for one identifier leaves the other identifiers alone.
ThrottlerSlidingWindow ==
    [][\A id \in IPs : isAllowed(id) =>
          /\ \A t \in 0..MaxTime :
                 CountIn(allowedAt'[id], t - window, t) <= THROTTLE_LIMIT
          /\ deniedCalls'[id] # deniedCalls[id] =>
                 /\ requests'[id] = CleanOld(requests[id], now - window)
                 /\ allowedAt'[id] = allowedAt[id]
          /\ \A other \in IPs \ {id} :
                 /\ requests'[other] = requests[other]
                 /\ allowedAt'[other] = allowedAt[other]
                 /\ deniedCalls'[other] = deniedCalls[other]]_vars

\* an identifier was denied at its limit, later admitted again when its
\* window had moved on, while another identifier was admitted meanwhile
ThrottlerSlidingWindowWitness ==
    \E id \in IPs : \E other \in IPs \ {id} :
        /\ deniedCalls[id] = 1
        /\ Len(allowedAt[id]) = THROTTLE_LIMIT + 1
        /\ Len(requests[id]) < Len(allowedAt[id])
        /\ Len(allowedAt[other]) = 1

\* C29: withRetry invokes fn at most maxRetries + 1 times; it returns the
\* result of the first successful invocation and invokes fn no more after
\* it; when every invocation fails it throws the error of the last one.
RetryBoundedAttempts ==
    /\ Len(rt.results) <= maxRetries + 1
    /\ \A k \in 1..(Len(rt.results) - 1) : ~rt.results[k].ok
    /\ rt.pc \in {"calling", "waiting"} => \A k \in DOMAIN rt.results : ~rt.results[k].ok
    /\ rt.pc = "done" =>
          /\ rt.results # <<>>
          /\ rt.value = Last(rt.results)
          /\ rt.outcome = (IF Last(rt.results).ok THEN "returned" ELSE "threw")

\* maxRetries + 1 invocations failed with differing errors and the last
\* error was thrown
RetryBoundedAttemptsWitness ==
    /\ rt.pc = "done"
    /\ rt.outcome = "threw"
    /\ Len(rt.results) = maxRetries + 1
    /\ rt.results[1] # Last(rt.results)
    /\ rt.value = Last(rt.results)

\* C30: when the wrapped handler has not settled by the time the timer
\* fires, the caller gets the FUNCTION_INVOCATION_TIMEOUT response instead
\* of waiting for the handler; when the handler settles first the timer is
\* cleared and no timeout error is raised.
TimeoutGivesErrorOutcome ==
    /\ tw.timer = "fired" =>
          /\ tw.pc = "done"
          /\ tw.response = "FUNCTION_INVOCATION_TIMEOUT"
    /\ (tw.pc = "done" /\ tw.timer # "fired") =>
          /\ tw.timer = "cleared"
          /\ tw.response # "FUNCTION_INVOCATION_TIMEOUT"

\* what the code keeps of it: a handler that settles before the timer
\* fires clears it, and the response is the handler's
SettledFirstClearsTimer ==
    (tw.pc = "done" /\ tw.timer # "fired") =>
        /\ tw.timer = "cleared"
        /\ tw.response # "FUNCTION_INVOCATION_TIMEOUT"

\* the response of the timeout error is never produced
NoTimeoutResponse == tw.response # "FUNCTION_INVOCATION_TIMEOUT"

\* the ids of the messages in the set ms
PendingIds(ms) == {m.id : m \in ms}

\* C31: a message:new event is emitted only in the step in which
\* Message.create has succeeded for its message; the step that receives a
\* request emits nothing, and a request answered 400 is never handed to
\* Message.create and never relayed; a failed Message.create relays nothing.
RelaysOnlyPersisted ==
    [][/\ nreq' # nreq =>
             /\ inbox' = inbox
             /\ relayed' = relayed
             /\ Last(res') = 400 <=> pending' = pending
       /\ \A c \in ConnIds : inbox'[c] # inbox[c] =>
             \E m \in pending \ pending' :
                 /\ inbox'[c] = Append(inbox[c], MessageEvent(m))
                 /\ relayed' = Append(relayed, m.id)
                 /\ res'[m.id] = 201
       /\ \A k \in 1..Len(res') : res'[k] = 400 =>
             /\ k \notin PendingIds(pending')
             /\ k \notin {relayed'[j] : j \in 1..Len(relayed')}
             /\ \A c \in ConnIds : k \notin MsgIds(inbox'[c])
       /\ (pending' # pending /\ nreq' = nreq /\ relayed' = relayed) =>
             inbox' = inbox /\ res' = res]_vars

\* an empty request was answered 400, a second request was persisted and
\* relayed to a room member
RelaysOnlyPersistedWitness ==
    /\ res = <<400, 201>>
    /\ relayed = <<2>>
    /\ pending = {}
    /\ conn["1"] = "open"
    /\ MsgIds(inbox["1"]) = {2}

\* C32: in every reachable state the keys of onlineUsers are exactly the
\* connections that have connected and whose disconnect has not been
\* handled, and every entry carries its own key as id.
RegistryMatchesConnections ==
    /\ DOMAIN onlineUsers = Sockets(conn)
    /\ \A k \in DOMAIN onlineUsers : onlineUsers[k].id = k

\* one connection has come and gone, another one is registered
RegistryMatchesConnectionsWitness ==
    /\ conn["1"] = "closed"
    /\ conn["2"] = "open"
    /\ DOMAIN onlineUsers = {"2"}
    /\ onlineUsers["2"].id = "2"

\* the relation of state and failureCount
StateMatchesCount(b) ==
    /\ b.state = "CLOSED" => b.failureCount < threshold
    /\ b.state \in {"OPEN", "HALF_OPEN"} => b.failureCount >= threshold

\* C33: with calls made one after another, CLOSED goes with failureCount <
\* threshold and OPEN and HALF_OPEN with failureCount >= threshold; every
\* failure counts one up, every success sets the count to 0 and the state
\* to CLOSED, nothing else changes the count, and a CLOSED breaker opens
\* exactly in the failure that brings the count to threshold.
BreakerStateCountInvariant ==
    [][/\ StateMatchesCount(cb')
       /\ FnThrows => cb'.failureCount = cb.failureCount + 1
       /\ FnReturns => cb'.failureCount = 0 /\ cb'.state = "CLOSED"
       /\ cb'.failureCount # cb.failureCount => FnThrows \/ FnReturns
       /\ (cb.state = "CLOSED" /\ cb'.state # "CLOSED") <=>
             (cb.state = "CLOSED" /\ FnThrows /\ cb'.state = "OPEN"
                /\ cb'.failureCount = threshold)
       /\ (cb.state = "CLOSED" /\ FnThrows /\ cb.failureCount + 1 = threshold) =>
             cb'.state = "OPEN"]_vars

\* a success, then threshold failures in a row: the breaker is open with
\* exactly threshold failures counted
BreakerStateCountInvariantWitness ==
    /\ cb.state = "OPEN"
    /\ cb.failureCount = threshold
    /\ fnCalls = threshold + 1
    /\ rejected = 0
    /\ running = 0

\* C34: whatever the interleaving of execute calls, a breaker that is OPEN
\* leaves OPEN only when more than timeout ms have passed since the last
\* recorded failure; a call in flight that succeeds does not close it.
OpenUntilTimeout ==
    [][(cb.state = "OPEN" /\ cb'.state # "OPEN") =>
          now - cb.lastFailureTime > timeout]_vars

\* C35: a request that arrives while the middleware breaker is OPEN passes
\* it when more than timeout ms have passed since the breaker opened, and a
\* request that is rejected because the breaker is OPEN leaves the breaker's
\* failureCount, lastFailureTime and state as they are.
MiddlewareBreakerRecovers ==
    [][(mcb.state = "OPEN" /\ (mwPassed' # mwPassed \/ mwRejected' # mwRejected)) =>
          /\ now - mwOpenedAt > timeout => mwPassed' = mwPassed + 1
          /\ mwRejected' # mwRejected => mcb' = mcb]_vars

\* more than timeout ms after the breaker opened a request is still rejected
MiddlewareBreakerStuck ==
    /\ mcb.state = "OPEN"
    /\ now - mwOpenedAt > timeout
    /\ ~(now - mcb.lastFailureTime > timeout)
    /\ mwRejected >= 2

\* the errors the claim calls non-retryable
ClaimedNonRetryable(e) ==
    \/ e.status = 400 \/ e.status = 401 \/ e.status = 403
    \/ e.status = 404 \/ e.status = 422
    \/ e.code = "ENOTFOUND" \/ e.code = "ECONNREFUSED"

\* C36: in withRetry of api/utils/errorHandler.js, an invocation of fn that
\* fails with status 400, 401, 403, 404 or 422 or with code ENOTFOUND or
\* ECONNREFUSED is the last one: the call has ended by throwing that error.
NonRetryableNotRetried ==
    rt.version = "api" =>
        \A k \in DOMAIN rt.results :
            (~rt.results[k].ok /\ ClaimedNonRetryable(rt.results[k])) =>
                /\ k = Len(rt.results)
                /\ rt.pc = "done"
                /\ rt.outcome = "threw"
                /\ rt.value = rt.results[k]

\* a retryable failure was retried, the connection was then refused and the
\* call ended at once, with retries left
NonRetryableNotRetriedWitness ==
    /\ rt.version = "api"
    /\ rt.pc = "done"
    /\ rt.outcome = "threw"
    /\ Len(rt.results) = 2
    /\ rt.results[1].status = 503
    /\ rt.value.code = "ECONNREFUSED"
    /\ rt.attempt < maxRetries

\* C37: one send action of the client yields at most one persisted (and
\* so relayed) message and at most one message:new event per room member,
\* whatever happens to the responses of its POST requests.
OneMessagePerSend ==
    /\ Cardinality(send.requests \cap {relayed[k] : k \in 1..Len(relayed)}) <= 1
    /\ \A c \in ConnIds : Cardinality(send.requests \cap MsgIds(inbox[c])) <= 1

\* C38: the message:new events of one room reach a member in the order of
\* the createdAt timestamps of their messages, the order in which
\* listMessages returns them.
RelayOrderIsCreatedAtOrder ==
    \A c \in ConnIds : \A i, j \in 1..Len(inbox[c]) :
        (i < j /\ inbox[c][i].message.roomId = inbox[c][j].message.roomId) =>
            inbox[c][i].message.createdAt <= inbox[c][j].message.createdAt

\* C39: a typing event reaches a socket only from a connection that is
\* itself in a room the receiving socket is in: a connection that has not
\* joined room r cannot make typing events reach the members of r.
TypingStaysInSendersRooms ==
    [][\A d \in ConnIds : typing'[d] # typing[d] =>
          \E c \in ConnIds :
              /\ Last(typing'[d]).userId = c
              /\ rooms[c] \cap rooms[d] # {}]_vars

\* C40: after the user has selected another room with the name unchanged,
\* the component's socket is still active, and once the server has handled
\* the packets sent so far the connection is open and in the selected room,
\* so that a message relayed to that room then reaches the client.
SwitchedRoomIsJoined ==
    ui.switches > 0 =>
        /\ ui.active
        /\ ui.outbox = <<>> => (conn[ui.sock] = "open" /\ ui.roomId \in rooms[ui.sock])

\* the user has switched rooms, the server has handled the disconnect, and
\* a message relayed to the selected room has not reached the client
SwitchedRoomIsDead ==
    /\ ui.switches = 1
    /\ ~ui.active
    /\ ui.sendBuffer = <<ui.roomId>>
    /\ conn[ui.sock] = "closed"
    /\ Len(relayed) = MaxEvents
    /\ inbox[ui.sock] = <<>>
====
